---- MODULE Spec2Model ----
(***************************************************************************)
(* Model of the cas command line tool (yabasha/cas): option resolution     *)
(* (args.ts), the run() entry point (cli.ts), the interactive prompts      *)
(* (prompts.ts) and the scaffold() orchestrator (template.ts) acting on    *)
(* one target path of the file system and on external processes.           *)
(*                                                                         *)
(* Strings that are only compared are TLA+ strings.  Text that is edited   *)
(* (file contents, project names) is a sequence of symbols: a symbol is a  *)
(* character or one of the fixed tokens the code searches for.             *)
(* A path below the target directory is the sequence of its components.    *)
(***************************************************************************)
EXTENDS Integers, Sequences, FiniteSets, TLC

VARIABLES
    pc,             \* position of run() / scaffold()
    projectName,    \* initCommand.args[0]; <<>> when not given
    opts,           \* initCommand.opts()
    options,        \* Partial<CasOptions> returned by parseOptions
    finalOptions,   \* CasOptions handed to scaffold
    fs,             \* the file system entry at the target path
    fs0,            \* the same entry when the program was started
    written,        \* paths processTemplateFile has written, in order
    procs,          \* external processes started so far, in order
    execResults,    \* what the exec() calls awaited by scaffold returned, in order
    log,            \* dryRunLog lines, in order
    stages,         \* mutating stages scaffold has performed, in order
    errors,         \* scaffold's local errors array
    result,         \* ScaffoldResult returned by scaffold
    console,        \* what run() reported
    updatePromise,  \* state of the promise returned by checkForUpdates
    exitCode,       \* process exit status; -1 while running
    arg,            \* argument of an exported function called on its own
    ret             \* what that call returned

vars == <<pc, projectName, opts, options, finalOptions, fs, fs0, written, procs, execResults, log,
          stages, errors, result, console, updatePromise, exitCode, arg, ret>>

----------------------------------------------------------------------------
(* Symbols of edited text *)

PH_projectName == "{{projectName}}"
PH_author      == "{{author}}"
PH_license     == "{{license}}"
PH_year        == "{{year}}"
ORIGIN_NAME    == "composable-ai-stack"

\* new Date().getFullYear().toString()
Year == <<"2026">>

\* a run of 107 letters a, taken as one symbol
LONG_RUN == "a x 107"

\* symbols a name may start with (match [a-z])
LowerStart == {"a", "b", ORIGIN_NAME, LONG_RUN}
\* symbols matching [a-z0-9-_]*
ValidSyms == LowerStart \cup {"1", "-", "_"}

SymLen(s) == IF s = ORIGIN_NAME THEN 19 ELSE IF s = LONG_RUN THEN 107 ELSE 1

RECURSIVE NameLength(_)
NameLength(name) ==
    IF name = <<>> THEN 0 ELSE SymLen(Head(name)) + NameLength(Tail(name))

MaxNameLength == 214

\* mutant: the length test is off by one
validateProjectName_offByOne(name) ==
    IF name = <<>> THEN [valid |-> FALSE, message |-> "Project name is required"]
    ELSE IF NameLength(name) >= MaxNameLength
         THEN [valid |-> FALSE, message |-> "Project name must be 214 characters or less"]
    ELSE IF ~(Head(name) \in LowerStart /\ \A i \in 1..Len(name) : name[i] \in ValidSyms)
         THEN [valid |-> FALSE, message |-> "Project name must start with a lowercase letter and contain only lowercase letters, numbers, hyphens, and underscores"]
    ELSE [valid |-> TRUE]

validateProjectName(name) ==
    IF name = <<>> THEN [valid |-> FALSE, message |-> "Project name is required"]
    ELSE IF NameLength(name) > MaxNameLength
         THEN [valid |-> FALSE, message |-> "Project name must be 214 characters or less"]
    ELSE IF ~(Head(name) \in LowerStart /\ \A i \in 1..Len(name) : name[i] \in ValidSyms)
         THEN [valid |-> FALSE, message |-> "Project name must start with a lowercase letter and contain only lowercase letters, numbers, hyphens, and underscores"]
    ELSE [valid |-> TRUE]

----------------------------------------------------------------------------
(* slugify of utils.ts *)

\* name.toLowerCase()
toLowerCase(text) == [i \in 1..Len(text) |-> IF text[i] = "A" THEN "a" ELSE text[i]]

\* .replace(/[^a-z0-9-_]/g, '-')
replaceInvalid(text) ==
    [i \in 1..Len(text) |-> IF text[i] \in ValidSyms THEN text[i] ELSE "-"]

\* .replace(/^[^a-z]+/, '')
RECURSIVE stripLeading(_)
stripLeading(text) ==
    IF text = <<>> \/ Head(text) \in LowerStart THEN text
    ELSE stripLeading(Tail(text))

\* .replace(/-+/g, '-')
RECURSIVE collapseHyphens(_)
collapseHyphens(text) ==
    IF Len(text) < 2 THEN text
    ELSE IF text[1] = "-" /\ text[2] = "-" THEN collapseHyphens(Tail(text))
    ELSE <<Head(text)>> \o collapseHyphens(Tail(text))

\* .replace(/-$/, '')
stripTrailing(text) ==
    IF text # <<>> /\ text[Len(text)] = "-" THEN SubSeq(text, 1, Len(text) - 1)
    ELSE text

\* mutant: the trailing hyphen is stripped before the hyphens are collapsed
slugify_stripBeforeCollapse(name) ==
    collapseHyphens(stripTrailing(stripLeading(replaceInvalid(toLowerCase(name)))))

slugify(name) ==
    stripTrailing(collapseHyphens(stripLeading(replaceInvalid(toLowerCase(name)))))

----------------------------------------------------------------------------
(* Inputs *)

\* positional project names tried; <<>> is "not given"
ArgNames == { <<>>, <<"a", "-", "1">>, <<"A">> }
\* names typed at the prompt
TypedNames == { <<"b">>, <<"A">>, <<ORIGIN_NAME, "-", "b">> }
Authors == { "Jane" }
VALID_LICENSES == {"MIT", "Apache-2.0", "ISC", "GPL-3.0", "BSD-3-Clause", "UNLICENSED"}
VALID_PACKAGE_MANAGERS == {"bun", "npm", "yarn", "pnpm"}
\* licences and package managers given on the command line ("" is "not given")
ArgLicenses == {""}
ArgPackageManagers == {"bun"}
ArgDirs == {""}
ArgAuthors == {""}
\* exit codes external processes end with
ExitCodes == {0, 1}

----------------------------------------------------------------------------
(* File system at the target path *)

NoEntry == [kind |-> "none", dirs |-> {}, files |-> <<>>]

\* a regular file at the target path
FileEntry == [kind |-> "file", dirs |-> {}, files |-> <<>>]

\* a directory the user already has at the target path
UserDir == [kind |-> "dir", dirs |-> {},
            files |-> (<<"notes.txt">> :> <<"mine">>)]

Under(path, dir) ==
    Len(dir) <= Len(path) /\ SubSeq(path, 1, Len(dir)) = dir

Restrict(f, S) == [x \in S |-> f[x]]

\* mutant: the stat always fails, so no directory is ever found
directoryExists_neverFound(f, path) == FALSE

directoryExists(f, path) ==
    IF path = <<>> THEN f.kind = "dir" ELSE f.kind = "dir" /\ path \in f.dirs

\* mutant: rm without recursive, which leaves a non-empty directory
removeDirectory_nonRecursive(f, path) ==
    IF path = <<>>
    THEN (IF f.dirs = {} /\ DOMAIN f.files = {} THEN NoEntry ELSE f)
    ELSE IF f.kind # "dir" THEN f
    ELSE IF \E q \in f.dirs \cup DOMAIN f.files : q # path /\ Under(q, path) THEN f
    ELSE [f EXCEPT !.dirs = f.dirs \ {path}]

removeDirectory(f, path) ==
    IF path = <<>> THEN NoEntry
    ELSE IF f.kind # "dir" THEN f
    ELSE [f EXCEPT !.dirs = {d \in f.dirs : ~Under(d, path)},
                   !.files = Restrict(f.files,
                                {p \in DOMAIN f.files : ~Under(p, path)})]

fileExists(f, path) == f.kind = "dir" /\ path \in DOMAIN f.files

writeFile(f, path, content) ==
    [f EXCEPT !.files = [p \in DOMAIN f.files \cup {path} |->
                            IF p = path THEN content ELSE f.files[p]]]

RECURSIVE Prefixes(_)
Prefixes(path) ==
    IF path = <<>> THEN {} ELSE {path} \cup Prefixes(SubSeq(path, 1, Len(path) - 1))

\* mkdir(path, { recursive: true })
mkdir(f, path) == [f EXCEPT !.dirs = f.dirs \cup Prefixes(path)]

----------------------------------------------------------------------------
(* The template repository *)

TEMPLATE_REPO == "https://github.com/yabasha/composable-ai-stack.git"

COMPONENTS == <<"api", "worker", "evals", "config">>

COMPONENT_DIRS ==
    [c \in {"api", "worker", "evals", "config"} |->
        CASE c = "api"    -> <<"apps", "api">>
          [] c = "worker" -> <<"apps", "worker">>
          [] c = "evals"  -> <<"packages", "evals">>
          [] c = "config" -> <<"packages", "config">>]

RAG_DIR == <<"packages", "rag">>

TEMPLATE_FILES == <<
    <<"package.json">>,
    <<"README.md">>,
    <<"apps", "web", "package.json">>,
    <<"apps", "api", "package.json">>,
    <<"apps", "worker", "package.json">>,
    <<"apps", "convex", "package.json">>,
    <<"packages", "ai", "package.json">>,
    <<"packages", "config", "package.json">>,
    <<"packages", "evals", "package.json">>,
    <<"packages", "prompts", "package.json">>,
    <<"packages", "schemas", "package.json">>,
    <<"packages", "shared", "package.json">> >>

\* module directories of the template repository
TemplateModules ==
    { <<"apps", "web">>, <<"apps", "api">>, <<"apps", "worker">>, <<"apps", "convex">>,
      <<"packages", "ai">>, <<"packages", "config">>, <<"packages", "evals">>,
      <<"packages", "prompts">>, <<"packages", "schemas">>, <<"packages", "shared">> }

CoreModules == { <<"apps", "web">>, <<"packages", "ai">>, <<"packages", "shared">> }

TemplateTree ==
    [kind |-> "dir",
     dirs |-> { <<".git">>, <<"apps">>, <<"packages">> } \cup TemplateModules,
     files |->
        [p \in { <<".git", "config">>, <<"package.json">>, <<"README.md">> }
               \cup { m \o <<"package.json">> : m \in TemplateModules } |->
            CASE p = <<".git", "config">> -> <<TEMPLATE_REPO>>
              [] p = <<"package.json">> ->
                    <<ORIGIN_NAME, PH_author, PH_license>>
              [] p = <<"README.md">> ->
                    <<"# ", PH_projectName, PH_year, PH_author>>
              [] OTHER -> <<"@", ORIGIN_NAME, "/", p[2]>>]]

----------------------------------------------------------------------------
(* Template variable substitution *)

\* content.replace(/tok/g, val) on symbol sequences
RECURSIVE replaceAll(_, _, _)
replaceAll(content, tok, val) ==
    IF content = <<>> THEN <<>>
    ELSE (IF Head(content) = tok THEN val ELSE <<Head(content)>>)
         \o replaceAll(Tail(content), tok, val)

replaceTemplateVars(content, tv) ==
    replaceAll(
      replaceAll(
        replaceAll(
          replaceAll(
            replaceAll(content, PH_projectName, tv.projectName),
            PH_author, tv.author),
          PH_license, tv.license),
        PH_year, tv.year),
      ORIGIN_NAME, tv.projectName)

\* mutant: a missing file is created empty instead of being skipped
processTemplateFile_createsMissing(f, filePath, tv) ==
    IF ~fileExists(f, filePath) THEN writeFile(f, filePath, <<>>)
    ELSE LET content   == f.files[filePath]
             processed == replaceTemplateVars(content, tv)
         IN  IF processed # content THEN writeFile(f, filePath, processed) ELSE f

processTemplateFile(f, filePath, tv) ==
    IF ~fileExists(f, filePath) THEN f
    ELSE LET content   == f.files[filePath]
             processed == replaceTemplateVars(content, tv)
         IN  IF processed # content THEN writeFile(f, filePath, processed) ELSE f

RECURSIVE processFiles(_, _, _)
processFiles(f, paths, tv) ==
    IF paths = <<>> THEN f
    ELSE processFiles(processTemplateFile(f, Head(paths), tv), Tail(paths), tv)

\* readdir(dir, { withFileTypes: true }) filtered by entry.isDirectory()
subdirectories(f, dir) ==
    { d \in f.dirs : Len(d) = Len(dir) + 1 /\ Under(d, dir) }

RECURSIVE processSet(_, _, _)
processSet(f, paths, tv) ==
    IF paths = {} THEN f
    ELSE LET p == CHOOSE x \in paths : TRUE
         IN  processSet(processTemplateFile(f, p, tv), paths \ {p}, tv)

\* the loop over [appsDir, packagesDir] of scaffold
scanPackageJsons(f, tv) ==
    LET scan(g, dir) ==
            IF directoryExists(g, dir)
            THEN processSet(g, { d \o <<"package.json">> : d \in subdirectories(g, dir) }, tv)
            ELSE g
    IN  scan(scan(f, <<"apps">>), <<"packages">>)

\* the writeFile call processTemplateFile makes, if it makes one
writesOfFile(f, filePath, tv) ==
    IF ~fileExists(f, filePath) THEN <<>>
    ELSE IF replaceTemplateVars(f.files[filePath], tv) # f.files[filePath]
         THEN <<filePath>> ELSE <<>>

RECURSIVE writesOfFiles(_, _, _)
writesOfFiles(f, paths, tv) ==
    IF paths = <<>> THEN <<>>
    ELSE writesOfFile(f, Head(paths), tv)
         \o writesOfFiles(processTemplateFile(f, Head(paths), tv), Tail(paths), tv)

RECURSIVE writesOfSet(_, _, _)
writesOfSet(f, paths, tv) ==
    IF paths = {} THEN <<>>
    ELSE LET p == CHOOSE x \in paths : TRUE
         IN  writesOfFile(f, p, tv)
             \o writesOfSet(processTemplateFile(f, p, tv), paths \ {p}, tv)

\* the writeFile calls of the substitution stage, in order
substitutionWrites(f, tv) ==
    LET pkgJsons(g, dir) == { d \o <<"package.json">> : d \in subdirectories(g, dir) }
        scanned(g, dir) == IF directoryExists(g, dir)
                           THEN processSet(g, pkgJsons(g, dir), tv) ELSE g
        scanWrites(g, dir) == IF directoryExists(g, dir)
                              THEN writesOfSet(g, pkgJsons(g, dir), tv) ELSE <<>>
        f1 == processFiles(f, TEMPLATE_FILES, tv)
        f2 == scanned(f1, <<"apps">>)
    IN  writesOfFiles(f, TEMPLATE_FILES, tv)
        \o scanWrites(f1, <<"apps">>)
        \o scanWrites(f2, <<"packages">>)

getInstallCommand(pm) == [cmd |-> pm, args |-> <<"install">>]

----------------------------------------------------------------------------
(* RAG module injection *)

ragEnvVars == <<"# RAG / Qdrant", "QDRANT_URL=", "QDRANT_API_KEY=">>

ragReadme(tv) == <<"## RAG", "@">> \o tv.projectName \o <<"/rag">>

readOrEmpty(f, path) == IF fileExists(f, path) THEN f.files[path] ELSE <<>>

\* mutant: the two snippets replace the files instead of being appended
scaffoldRagModule_overwrites(f, tv) ==
    writeFile(writeFile(mkdir(f, RAG_DIR \o <<"src">>), <<".env.example">>, ragEnvVars),
              <<"README.md">>, ragReadme(tv))

scaffoldRagModule(f, tv) ==
    LET srcDir == RAG_DIR \o <<"src">>
        f1 == mkdir(f, srcDir)
        f2 == writeFile(f1, RAG_DIR \o <<"package.json">>,
                        <<"@">> \o tv.projectName \o <<"/rag">>)
        f3 == writeFile(f2, RAG_DIR \o <<"tsconfig.json">>, <<"tsconfig">>)
        f4 == writeFile(f3, srcDir \o <<"qdrant.ts">>, <<"qdrant">>)
        f5 == writeFile(f4, srcDir \o <<"embeddings.ts">>, <<"embeddings">>)
        f6 == writeFile(f5, srcDir \o <<"retriever.ts">>, <<"retriever">>)
        f7 == writeFile(f6, srcDir \o <<"index.ts">>, <<"index">>)
        f8 == writeFile(f7, <<"docker-compose.qdrant.yml">>, <<"qdrant_storage">>)
        f9 == writeFile(f8, <<".env.example">>,
                        readOrEmpty(f8, <<".env.example">>) \o ragEnvVars)
    IN  writeFile(f9, <<"README.md">>,
                  readOrEmpty(f9, <<"README.md">>) \o ragReadme(tv))

----------------------------------------------------------------------------
(* Option resolution (args.ts) *)

\* mutant: the mutual exclusion of the presets is not checked
ConflictingPresets_unchecked(o) == FALSE

\* the condition under which parseOptions throws
ConflictingPresets(o) == o.all /\ o.minimal

\* the record parseOptions returns when it does not throw; it has no
\* withRag field
parseOptions(name, o) ==
    LET preset(flag) == IF o.all THEN TRUE ELSE IF o.minimal THEN FALSE ELSE flag
    IN  [withApi        |-> preset(o.withApi),
         withWorker     |-> preset(o.withWorker),
         withEvals      |-> preset(o.withEvals),
         withConfig     |-> preset(o.withConfig),
         all            |-> o.all,
         minimal        |-> o.minimal,
         force          |-> o.force,
         noInstall      |-> (o.install = FALSE),
         noGit          |-> (o.git = FALSE),
         packageManager |-> o.packageManager,
         dryRun         |-> o.dryRun,
         projectName    |-> name,
         dir            |-> IF name # <<>>
                            THEN (IF o.dir # "" THEN <<o.dir>> ELSE name)
                            ELSE (IF o.dir # "" THEN <<o.dir>> ELSE <<>>),
         author         |-> o.author,
         license        |-> o.license]

\* partial.field || false for a boolean field the record may lack
flagOrFalse(partial, field) ==
    IF field \in DOMAIN partial THEN partial[field] ELSE FALSE

needsInteractiveMode(partial) ==
    IF partial.projectName = <<>> THEN TRUE
    ELSE IF ~partial.all /\ ~partial.minimal /\ ~partial.withApi
            /\ ~partial.withWorker /\ ~partial.withEvals /\ ~partial.withConfig
         THEN TRUE
         ELSE FALSE

\* the object literal run() builds in non-interactive mode
nonInteractiveDefaults(partial) ==
    [projectName    |-> partial.projectName,
     dir            |-> IF partial.dir # <<>> THEN partial.dir ELSE partial.projectName,
     author         |-> partial.author,
     license        |-> IF partial.license # "" THEN partial.license ELSE "MIT",
     withApi        |-> partial.withApi,
     withWorker     |-> partial.withWorker,
     withEvals      |-> partial.withEvals,
     withConfig     |-> partial.withConfig,
     withRag        |-> flagOrFalse(partial, "withRag"),
     all            |-> partial.all,
     minimal        |-> partial.minimal,
     force          |-> partial.force,
     noInstall      |-> partial.noInstall,
     noGit          |-> partial.noGit,
     packageManager |-> partial.packageManager,
     dryRun         |-> partial.dryRun]

\* the components answer of runInteractivePrompts when no prompt is shown
preselected(partial) ==
    { c \in {"api", "worker", "evals", "config", "rag"} :
        \/ c = "api"    /\ partial.withApi
        \/ c = "worker" /\ partial.withWorker
        \/ c = "evals"  /\ partial.withEvals
        \/ c = "config" /\ partial.withConfig
        \/ c = "rag"    /\ flagOrFalse(partial, "withRag") }

COMPONENT_OPTIONS == {"api", "worker", "evals", "config", "rag"}

\* the object runInteractivePrompts returns for the given answers
interactiveResult(partial, name, author, license, components) ==
    [projectName    |-> name,
     dir            |-> IF partial.dir # <<>> THEN partial.dir ELSE name,
     author         |-> author,
     license        |-> license,
     withApi        |-> "api" \in components,
     withWorker     |-> "worker" \in components,
     withEvals      |-> "evals" \in components,
     withConfig     |-> "config" \in components,
     withRag        |-> "rag" \in components,
     all            |-> partial.all,
     minimal        |-> partial.minimal,
     force          |-> partial.force,
     noInstall      |-> partial.noInstall,
     noGit          |-> partial.noGit,
     packageManager |-> partial.packageManager,
     dryRun         |-> partial.dryRun]

----------------------------------------------------------------------------
(* State *)

Unset == [unset |-> TRUE]

PromptLicenses == {"MIT"}

InitialEntries == {NoEntry, FileEntry, UserDir}

Init ==
    /\ pc = "start"
    /\ projectName \in ArgNames
    /\ opts \in [all: BOOLEAN, minimal: BOOLEAN,
                 withApi: BOOLEAN, withWorker: BOOLEAN,
                 withEvals: BOOLEAN, withConfig: BOOLEAN,
                 force: BOOLEAN, install: BOOLEAN, git: BOOLEAN, dryRun: BOOLEAN,
                 packageManager: ArgPackageManagers, dir: ArgDirs,
                 author: ArgAuthors, license: ArgLicenses]
    /\ options = Unset
    /\ finalOptions = Unset
    /\ fs \in InitialEntries
    /\ fs0 = fs
    /\ written = <<>>
    /\ procs = <<>>
    /\ execResults = <<>>
    /\ log = <<>>
    /\ stages = <<>>
    /\ errors = <<>>
    /\ result = Unset
    /\ console = <<>>
    /\ updatePromise = "none"
    /\ exitCode = -1
    /\ arg = Unset
    /\ ret = Unset

asText(s) == IF s = "" THEN <<>> ELSE <<s>>

\* the templateVars object of scaffold
templateVars(o) ==
    [projectName |-> o.projectName, author |-> asText(o.author),
     license |-> asText(o.license), year |-> Year]

----------------------------------------------------------------------------
(* run() of cli.ts *)

\* printBanner, checkForUpdates(VERSION) and program.parseAsync(argv)
Start ==
    /\ pc = "start"
    /\ procs' = Append(procs, "npm view")
    /\ updatePromise' = "pending"
    /\ pc' = "parse"
    /\ UNCHANGED <<projectName, opts, options, finalOptions, fs, fs0, written, arg, ret, execResults, log, stages,
                   errors, result, console, exitCode>>

\* mutant: run() awaits the update check before it resolves the options
Parse_awaitsUpdate ==
    /\ pc = "parse"
    /\ updatePromise \in {"null", "newer"}
    /\ IF ConflictingPresets(opts)
       THEN /\ console' = Append(console, "Error: Cannot use both --all and --minimal flags together")
            /\ exitCode' = 1
            /\ pc' = "exited"
            /\ UNCHANGED options
       ELSE /\ options' = parseOptions(projectName, opts)
            /\ pc' = "mode"
            /\ UNCHANGED <<console, exitCode>>
    /\ UNCHANGED <<projectName, opts, finalOptions, fs, fs0, written, arg, ret, execResults, procs, log, stages,
                   errors, result, updatePromise>>

\* the try block around parseOptions
Parse ==
    /\ pc = "parse"
    /\ IF ConflictingPresets(opts)
       THEN /\ console' = Append(console, "Error: Cannot use both --all and --minimal flags together")
            /\ exitCode' = 1
            /\ pc' = "exited"
            /\ UNCHANGED options
       ELSE /\ options' = parseOptions(projectName, opts)
            /\ pc' = "mode"
            /\ UNCHANGED <<console, exitCode>>
    /\ UNCHANGED <<projectName, opts, finalOptions, fs, fs0, written, arg, ret, execResults, procs, log, stages,
                   errors, result, updatePromise>>

NonInteractive ==
    /\ pc = "mode"
    /\ ~needsInteractiveMode(options)
    /\ finalOptions' = nonInteractiveDefaults(options)
    /\ pc' = "sc_online"
    /\ UNCHANGED <<projectName, opts, options, fs, fs0, written, arg, ret, execResults, procs, log, stages, errors,
                   result, console, updatePromise, exitCode>>

\* runInteractivePrompts answered to the end
Interactive ==
    /\ pc = "mode"
    /\ needsInteractiveMode(options)
    /\ procs' = Append(procs, "git config")
    /\ \E name \in (IF options.projectName # <<>> THEN {options.projectName}
                    ELSE {n \in TypedNames : validateProjectName(n).valid}),
          author \in (IF options.author # "" THEN {options.author} ELSE Authors),
          license \in (IF options.license # "" THEN {options.license} ELSE PromptLicenses),
          components \in (IF options.all THEN {COMPONENT_OPTIONS}
                          ELSE IF options.minimal THEN {{}}
                          ELSE IF preselected(options) # {} THEN {preselected(options)}
                          ELSE SUBSET COMPONENT_OPTIONS) :
            finalOptions' = interactiveResult(options, name, author, license, components)
    /\ pc' = "sc_online"
    /\ UNCHANGED <<projectName, opts, options, fs, fs0, written, arg, ret, execResults, log, stages, errors,
                   result, console, updatePromise, exitCode>>

\* onCancel of a prompt that is shown
CancelPrompt ==
    /\ pc = "mode"
    /\ needsInteractiveMode(options)
    /\ \/ options.projectName = <<>>
       \/ options.author = ""
       \/ options.license = ""
       \/ ~options.all /\ ~options.minimal /\ preselected(options) = {}
    /\ procs' = Append(procs, "git config")
    /\ console' = Append(console, "Operation cancelled.")
    /\ exitCode' = 0
    /\ pc' = "exited"
    /\ UNCHANGED <<projectName, opts, options, finalOptions, fs, fs0, written, arg, ret, execResults, log, stages,
                   errors, result, updatePromise>>

----------------------------------------------------------------------------
(* scaffold() of template.ts *)

Err(msg, detail) == [msg |-> msg, detail |-> detail]

ExecResult(cmd, code, stderr) == [cmd |-> cmd, exitCode |-> code, stderr |-> stderr]

\* mutant: the exit code of the probe is not looked at
isOnline_ignoresExitCode(code) == TRUE

\* the value isOnline() returns for the exit code of git ls-remote
isOnline(code) == code = 0

\* mutant: the early return for a failed probe carries no errors
ScCheckOnline_withoutErrors ==
    /\ pc = "sc_online"
    /\ IF ~finalOptions.dryRun
       THEN \E code \in ExitCodes :
              /\ procs' = Append(procs, "git ls-remote")
              /\ execResults' = Append(execResults, ExecResult("git ls-remote", code, ""))
              /\ IF ~isOnline(code)
                 THEN /\ result' = [success |-> FALSE]
                      /\ pc' = "report"
                 ELSE /\ pc' = "sc_target"
                      /\ UNCHANGED result
       ELSE /\ pc' = "sc_target"
            /\ UNCHANGED <<procs, execResults, result>>
    /\ UNCHANGED <<projectName, opts, options, finalOptions, fs, fs0, written, arg, ret, log, stages,
                   errors, console, updatePromise, exitCode>>

\* isOnline(): exec('git', ['ls-remote', ...]) and exitCode === 0
ScCheckOnline ==
    /\ pc = "sc_online"
    /\ IF ~finalOptions.dryRun
       THEN \E code \in ExitCodes :
              /\ procs' = Append(procs, "git ls-remote")
              /\ execResults' = Append(execResults, ExecResult("git ls-remote", code, ""))
              /\ IF ~isOnline(code)
                 THEN /\ result' = [success |-> FALSE,
                                    errors |-> <<Err("No network connectivity. Please check your internet connection and try again.", "")>>]
                      /\ pc' = "report"
                 ELSE /\ pc' = "sc_target"
                      /\ UNCHANGED result
       ELSE /\ pc' = "sc_target"
            /\ UNCHANGED <<procs, execResults, result>>
    /\ UNCHANGED <<projectName, opts, options, finalOptions, fs, fs0, written, arg, ret, log, stages,
                   errors, console, updatePromise, exitCode>>

\* mutant: the existing directory is removed in a dry run too
ScCheckTarget_ignoresDryRun ==
    /\ pc = "sc_target"
    /\ IF directoryExists(fs, <<>>)
       THEN IF ~finalOptions.force
            THEN /\ result' = [success |-> FALSE,
                               errors |-> <<Err("Directory already exists. Use --force to overwrite.", "")>>]
                 /\ pc' = "report"
                 /\ UNCHANGED <<fs, log, stages>>
            ELSE /\ fs' = removeDirectory(fs, <<>>)
                 /\ stages' = Append(stages, "remove existing directory")
                 /\ UNCHANGED log
                 /\ pc' = "sc_clone"
                 /\ UNCHANGED result
       ELSE /\ pc' = "sc_clone"
            /\ UNCHANGED <<fs, log, stages, result>>
    /\ UNCHANGED <<projectName, opts, options, finalOptions, fs0, written, arg, ret, execResults, procs, errors,
                   console, updatePromise, exitCode>>

ScCheckTarget ==
    /\ pc = "sc_target"
    /\ IF directoryExists(fs, <<>>)
       THEN IF ~finalOptions.force
            THEN /\ result' = [success |-> FALSE,
                               errors |-> <<Err("Directory already exists. Use --force to overwrite.", "")>>]
                 /\ pc' = "report"
                 /\ UNCHANGED <<fs, log, stages>>
            ELSE /\ IF finalOptions.dryRun
                    THEN /\ log' = Append(log, "Would remove existing directory")
                         /\ UNCHANGED <<fs, stages>>
                    ELSE /\ fs' = removeDirectory(fs, <<>>)
                         /\ stages' = Append(stages, "remove existing directory")
                         /\ UNCHANGED log
                 /\ pc' = "sc_clone"
                 /\ UNCHANGED result
       ELSE /\ pc' = "sc_clone"
            /\ UNCHANGED <<fs, log, stages, result>>
    /\ UNCHANGED <<projectName, opts, options, finalOptions, fs0, written, arg, ret, execResults, procs, errors,
                   console, updatePromise, exitCode>>

\* what an interrupted clone may leave behind
PartialClone == [kind |-> "dir", dirs |-> {<<".git">>}, files |-> <<>>]

\* what git clone can end with, given the entry at the destination
cloneOutcomes(f) ==
    IF f.kind = "none"
    THEN { [exitCode |-> 0, stderr |-> "", fs |-> TemplateTree],
           [exitCode |-> 1, stderr |-> "fatal: unable to access", fs |-> f],
           [exitCode |-> 1, stderr |-> "fatal: early EOF", fs |-> PartialClone] }
    ELSE { [exitCode |-> 1, stderr |-> "fatal: destination path already exists", fs |-> f] }

\* mutant: no cleanup after a failed clone
cloneCleanup_skipped(f) == f

\* the cleanup scaffold does when the clone failed
cloneCleanup(f) == removeDirectory(f, <<>>)

ScClone ==
    /\ pc = "sc_clone"
    /\ IF finalOptions.dryRun
       THEN /\ log' = Append(log, "Would clone template")
            /\ pc' = "sc_rmgit"
            /\ UNCHANGED <<fs, procs, execResults, stages, result>>
       ELSE \E out \in cloneOutcomes(fs) :
              /\ procs' = Append(procs, "git clone")
              /\ execResults' = Append(execResults, ExecResult("git clone", out.exitCode, out.stderr))
              /\ stages' = Append(stages, "clone")
              /\ IF out.exitCode # 0
                 THEN /\ fs' = cloneCleanup(out.fs)
                      /\ result' = [success |-> FALSE,
                                    errors |-> <<Err("Failed to clone template: ", out.stderr)>>]
                      /\ pc' = "report"
                 ELSE /\ fs' = out.fs
                      /\ pc' = "sc_rmgit"
                      /\ UNCHANGED result
              /\ UNCHANGED log
    /\ UNCHANGED <<projectName, opts, options, finalOptions, fs0, written, arg, ret, errors, console,
                   updatePromise, exitCode>>

\* mutant: a dry run does not describe the removal of .git
ScRemoveGit_notDescribed ==
    /\ pc = "sc_rmgit"
    /\ IF finalOptions.dryRun
       THEN UNCHANGED <<fs, log, stages>>
       ELSE /\ fs' = removeDirectory(fs, <<".git">>)
            /\ stages' = Append(stages, "remove .git")
            /\ UNCHANGED log
    /\ pc' = "sc_prune"
    /\ UNCHANGED <<projectName, opts, options, finalOptions, fs0, written, arg, ret, execResults, procs, errors,
                   result, console, updatePromise, exitCode>>

ScRemoveGit ==
    /\ pc = "sc_rmgit"
    /\ IF finalOptions.dryRun
       THEN /\ log' = Append(log, "Would remove .git directory")
            /\ UNCHANGED <<fs, stages>>
       ELSE /\ fs' = removeDirectory(fs, <<".git">>)
            /\ stages' = Append(stages, "remove .git")
            /\ UNCHANGED log
    /\ pc' = "sc_prune"
    /\ UNCHANGED <<projectName, opts, options, finalOptions, fs0, written, arg, ret, execResults, procs, errors,
                   result, console, updatePromise, exitCode>>

\* mutant: the config component is never scheduled for removal
componentsToRemove_withoutConfig(o) ==
    SelectSeq(COMPONENTS,
              LAMBDA c : \/ c = "api"    /\ ~o.withApi
                         \/ c = "worker" /\ ~o.withWorker
                         \/ c = "evals"  /\ ~o.withEvals)

\* the componentsToRemove array
componentsToRemove(o) ==
    SelectSeq(COMPONENTS,
              LAMBDA c : \/ c = "api"    /\ ~o.withApi
                         \/ c = "worker" /\ ~o.withWorker
                         \/ c = "evals"  /\ ~o.withEvals
                         \/ c = "config" /\ ~o.withConfig)

RECURSIVE removeComponents(_, _)
removeComponents(f, cs) ==
    IF cs = <<>> THEN f
    ELSE LET dirPath == COMPONENT_DIRS[Head(cs)]
         IN  removeComponents(IF directoryExists(f, dirPath)
                              THEN removeDirectory(f, dirPath) ELSE f,
                              Tail(cs))

ScPrune ==
    /\ pc = "sc_prune"
    /\ LET cs == componentsToRemove(finalOptions)
       IN  IF Len(cs) > 0
           THEN IF finalOptions.dryRun
                THEN /\ log' = log \o [i \in 1..Len(cs) |-> "Would remove component: " \o cs[i]]
                     /\ UNCHANGED <<fs, stages>>
                ELSE /\ fs' = removeComponents(fs, cs)
                     /\ stages' = stages \o [i \in 1..Len(cs) |-> "remove component: " \o cs[i]]
                     /\ UNCHANGED log
           ELSE UNCHANGED <<fs, log, stages>>
    /\ pc' = "sc_vars"
    /\ UNCHANGED <<projectName, opts, options, finalOptions, fs0, written, arg, ret, execResults, procs, errors,
                   result, console, updatePromise, exitCode>>

ScSubstitute ==
    /\ pc = "sc_vars"
    /\ LET tv == templateVars(finalOptions)
       IN  IF finalOptions.dryRun
           THEN /\ log' = log \o <<"Would replace template variables:", "  projectName",
                                   "  author", "  license", "  year">>
                /\ UNCHANGED <<fs, written, stages>>
           ELSE /\ fs' = scanPackageJsons(processFiles(fs, TEMPLATE_FILES, tv), tv)
                /\ written' = written \o substitutionWrites(fs, tv)
                /\ stages' = Append(stages, "replace template variables")
                /\ UNCHANGED log
    /\ pc' = "sc_rag"
    /\ UNCHANGED <<projectName, opts, options, finalOptions, fs0, arg, ret, execResults, procs, errors,
                   result, console, updatePromise, exitCode>>

ScRag ==
    /\ pc = "sc_rag"
    /\ IF finalOptions.withRag
       THEN IF finalOptions.dryRun
            THEN /\ log' = log \o <<"Would scaffold RAG module in packages/rag",
                                    "Would create docker-compose.qdrant.yml",
                                    "Would add QDRANT_URL and QDRANT_API_KEY to .env.example",
                                    "Would append RAG documentation to README.md">>
                 /\ UNCHANGED <<fs, stages>>
            ELSE /\ fs' = scaffoldRagModule(fs, templateVars(finalOptions))
                 /\ stages' = Append(stages, "scaffold RAG module")
                 /\ UNCHANGED log
       ELSE UNCHANGED <<fs, log, stages>>
    /\ pc' = "sc_git"
    /\ UNCHANGED <<projectName, opts, options, finalOptions, fs0, written, arg, ret, execResults, procs, errors,
                   result, console, updatePromise, exitCode>>

\* mutant: git init is started but not awaited
ScGitInit_notAwaited ==
    /\ pc = "sc_git"
    /\ IF ~finalOptions.noGit
       THEN IF finalOptions.dryRun
            THEN /\ log' = Append(log, "Would initialize git repository")
                 /\ UNCHANGED <<fs, procs, execResults, stages, errors>>
            ELSE /\ procs' = Append(procs, "git init")
                 /\ stages' = Append(stages, "git init")
                 /\ UNCHANGED <<fs, execResults, log, errors>>
       ELSE UNCHANGED <<fs, procs, execResults, log, stages, errors>>
    /\ pc' = "sc_install"
    /\ UNCHANGED <<projectName, opts, options, finalOptions, fs0, written, arg, ret, result, console,
                   updatePromise, exitCode>>

ScGitInit ==
    /\ pc = "sc_git"
    /\ IF ~finalOptions.noGit
       THEN IF finalOptions.dryRun
            THEN /\ log' = Append(log, "Would initialize git repository")
                 /\ UNCHANGED <<fs, procs, execResults, stages, errors>>
            ELSE \E code \in ExitCodes :
                   /\ procs' = Append(procs, "git init")
                   /\ execResults' = Append(execResults, ExecResult("git init", code, "git init stderr"))
                   /\ stages' = Append(stages, "git init")
                   /\ IF code # 0
                      THEN /\ errors' = Append(errors, Err("Warning: Failed to initialize git: ", "git init stderr"))
                           /\ UNCHANGED fs
                      ELSE /\ fs' = mkdir(fs, <<".git">>)
                           /\ UNCHANGED errors
                   /\ UNCHANGED log
       ELSE UNCHANGED <<fs, procs, execResults, log, stages, errors>>
    /\ pc' = "sc_install"
    /\ UNCHANGED <<projectName, opts, options, finalOptions, fs0, written, arg, ret, result, console,
                   updatePromise, exitCode>>

\* mutant: only the first collected warning is returned
scaffoldReturn_firstOnly(errs) ==
    IF Len(errs) > 0 THEN [success |-> FALSE, errors |-> <<errs[1]>>]
    ELSE [success |-> TRUE]

\* the final return statement of scaffold
scaffoldReturn(errs) ==
    IF Len(errs) > 0 THEN [success |-> Len(errs) = 0, errors |-> errs]
    ELSE [success |-> Len(errs) = 0]

\* dependency installation and the return of scaffold
ScInstall ==
    /\ pc = "sc_install"
    /\ IF ~finalOptions.noInstall
       THEN LET ic == getInstallCommand(finalOptions.packageManager)
            IN  IF finalOptions.dryRun
                THEN /\ log' = Append(log, "Would run: " \o ic.cmd \o " install")
                     /\ UNCHANGED <<fs, procs, execResults, stages, errors>>
                ELSE \E code \in ExitCodes :
                       /\ procs' = Append(procs, ic.cmd \o " install")
                       /\ execResults' = Append(execResults, ExecResult(ic.cmd \o " install", code, "install stderr"))
                       /\ stages' = Append(stages, "install")
                       /\ IF code # 0
                          THEN /\ errors' = errors \o
                                     << Err("Warning: Failed to install dependencies: ", "install stderr"),
                                        Err("You can manually run the install command in the project directory.", ic.cmd) >>
                               /\ UNCHANGED fs
                          ELSE /\ fs' = mkdir(fs, <<"node_modules">>)
                               /\ UNCHANGED errors
                       /\ UNCHANGED log
       ELSE UNCHANGED <<fs, procs, execResults, log, stages, errors>>
    /\ result' = scaffoldReturn(errors')
    /\ pc' = "report"
    /\ UNCHANGED <<projectName, opts, options, finalOptions, fs0, written, arg, ret, console,
                   updatePromise, exitCode>>

----------------------------------------------------------------------------
(* run() after scaffold *)

Report ==
    /\ pc = "report"
    /\ IF result.success
       THEN /\ console' = Append(console, "Project created successfully!")
            /\ pc' = "await_update"
            /\ UNCHANGED exitCode
       ELSE /\ console' = Append(console, "Project creation failed")
            /\ exitCode' = 1
            /\ pc' = "exited"
    /\ UNCHANGED <<projectName, opts, options, finalOptions, fs, fs0, written, arg, ret, execResults, procs, log,
                   stages, errors, result, updatePromise>>

\* checkForUpdates resolves, with a newer version or with null
UpdateSettles ==
    /\ updatePromise = "pending"
    /\ exitCode = -1
    /\ updatePromise' \in {"null", "newer"}
    /\ UNCHANGED <<pc, projectName, opts, options, finalOptions, fs, fs0, written, arg, ret, execResults, procs, log,
                   stages, errors, result, console, exitCode>>

\* await updatePromise and the end of run()
AwaitUpdate ==
    /\ pc = "await_update"
    /\ updatePromise \in {"null", "newer"}
    /\ console' = IF updatePromise = "newer"
                  THEN Append(console, "Update available") ELSE console
    /\ exitCode' = 0
    /\ pc' = "exited"
    /\ UNCHANGED <<projectName, opts, options, finalOptions, fs, fs0, written, arg, ret, execResults, procs, log,
                   stages, errors, result, updatePromise>>

Next ==
    \/ Start
    \/ Parse
    \/ NonInteractive
    \/ Interactive
    \/ CancelPrompt
    \/ ScCheckOnline
    \/ ScCheckTarget
    \/ ScClone
    \/ ScRemoveGit
    \/ ScPrune
    \/ ScSubstitute
    \/ ScRag
    \/ ScGitInit
    \/ ScInstall
    \/ Report
    \/ UpdateSettles
    \/ AwaitUpdate

Spec == Init /\ [][Next]_vars

----------------------------------------------------------------------------
(* Vocabulary of the properties *)

\* scaffold has returned
Returned == "success" \in DOMAIN result

\* run() has built the configuration handed to scaffold
Configured == "dryRun" \in DOMAIN finalOptions

NetworkError == Err("No network connectivity. Please check your internet connection and try again.", "")
TargetExistsError == Err("Directory already exists. Use --force to overwrite.", "")
CloneFailedMsg == "Failed to clone template: "

Started(cmd) == \E i \in 1..Len(procs) : procs[i] = cmd

\* the processes of the stages after the connectivity check
StageCommands ==
    {"git clone", "git init"} \cup { pm \o " install" : pm \in VALID_PACKAGE_MANAGERS }

NoStageProcess == \A i \in 1..Len(procs) : procs[i] \notin StageCommands

Failed(cmd) ==
    \E i \in 1..Len(execResults) :
        execResults[i].cmd = cmd /\ execResults[i].exitCode # 0

ProbeFailed == Failed("git ls-remote")

\* scaffold returned from one of the early returns of stages 1-3
FatalReturn ==
    /\ Returned
    /\ "errors" \in DOMAIN result
    /\ \/ result.errors[1] \in {NetworkError, TargetExistsError}
       \/ result.errors[1].msg = CloneFailedMsg

----------------------------------------------------------------------------
(* C1: target directory exists, force = false *)

\* C1 as stated: with force=false and an existing target directory, scaffold
\* returns success=false, its first error is the "already exists" error, no
\* later stage ran and the target is unchanged.
C1_ExistsWithoutForce_AsStated ==
    (Returned /\ ~finalOptions.force /\ fs0.kind = "dir") =>
        /\ result.success = FALSE
        /\ result.errors[1] = TargetExistsError
        /\ stages = <<>>
        /\ NoStageProcess
        /\ fs = fs0

\* C1 amended: with force=false and an existing target directory, scaffold
\* returns success=false, no later stage runs and the target is unchanged;
\* the first error is the "already exists" error unless the run is a real
\* run whose connectivity probe failed, where it is the network error.
C1_ExistsWithoutForce ==
    (Returned /\ ~finalOptions.force /\ fs0.kind = "dir") =>
        /\ result.success = FALSE
        /\ result.errors[1] = (IF ProbeFailed THEN NetworkError ELSE TargetExistsError)
        /\ stages = <<>>
        /\ NoStageProcess
        /\ fs = fs0

C1_Witness ==
    /\ Returned /\ ~finalOptions.force /\ fs0.kind = "dir"
    /\ ~finalOptions.dryRun
    /\ result.errors = <<TargetExistsError>>

----------------------------------------------------------------------------
(* C2: dry run leaves the file system alone *)

\* C2: under dryRun scaffold changes nothing at the target path and starts
\* no external process; the only processes of the invocation are the two
\* read-only lookups of run() and of the prompts.
C2_DryRunFrame ==
    (Configured /\ finalOptions.dryRun) =>
        /\ fs = fs0
        /\ stages = <<>>
        /\ execResults = <<>>
        /\ NoStageProcess
        /\ \A i \in 1..Len(procs) : procs[i] \in {"npm view", "git config"}

C2_Witness ==
    /\ Configured /\ finalOptions.dryRun /\ finalOptions.force
    /\ finalOptions.withRag /\ ~finalOptions.noGit /\ ~finalOptions.noInstall
    /\ fs0.kind = "dir"
    /\ Returned /\ result.success
    /\ pc = "exited"

----------------------------------------------------------------------------
(* C3, C4: fatal errors and warnings *)

\* C3: scaffold returns success=true exactly when no fatal error of stages
\* 1-3 occurred; a failed git init or install leaves success=true.
C3_SuccessIffNoFatalError ==
    Returned => (result.success <=> ~FatalReturn)

\* C4: the process exits non-zero on a fatal scaffold failure or on a
\* configuration error, and exits zero when scaffold ended without a fatal
\* error, warnings included.
C4_ExitStatus ==
    (pc = "exited") =>
        /\ (FatalReturn \/ (opts.all /\ opts.minimal)) => exitCode # 0
        /\ (Returned /\ ~FatalReturn) => exitCode = 0

----------------------------------------------------------------------------
(* C5: clone failure *)

\* C5: when git clone exits non-zero in a real run, the target path is
\* removed, scaffold returns success=false with the single error carrying
\* the captured stderr, and the clone is the last stage and the last process.
C5_CloneFailure ==
    Failed("git clone") =>
        /\ pc \in {"report", "exited"}
        /\ fs = NoEntry
        /\ result = [success |-> FALSE,
                     errors |-> <<Err(CloneFailedMsg, execResults[Len(execResults)].stderr)>>]
        /\ execResults[Len(execResults)].cmd = "git clone"
        /\ procs[Len(procs)] = "git clone"
        /\ stages[Len(stages)] = "clone"
        /\ errors = <<>>

C5_Witness ==
    /\ Failed("git clone")
    /\ execResults[Len(execResults)].stderr = "fatal: early EOF"
    /\ fs0 = NoEntry
    /\ pc = "exited"

----------------------------------------------------------------------------
(* C6: connectivity probe *)

\* C6: a failed probe of a real run ends scaffold with the network error
\* before anything at the target path is removed, logged or cloned; a dry
\* run never invokes the probe.
C6_ProbeFirst ==
    /\ ProbeFailed =>
          /\ pc \in {"report", "exited"}
          /\ result = [success |-> FALSE, errors |-> <<NetworkError>>]
          /\ fs = fs0
          /\ stages = <<>>
          /\ log = <<>>
          /\ Len(execResults) = 1
          /\ NoStageProcess
    /\ (Configured /\ finalOptions.dryRun) => ~Started("git ls-remote")

C6_Witness ==
    /\ ProbeFailed
    /\ finalOptions.force
    /\ fs0.kind = "dir"
    /\ pc = "exited"

----------------------------------------------------------------------------
(* C7: force = true on an existing target directory *)

PastTargetCheck ==
    pc \in {"sc_clone", "sc_rmgit", "sc_prune", "sc_vars", "sc_rag", "sc_git",
            "sc_install"}
    \/ (Returned /\ ~ProbeFailed)

C7_WitnessDryRun ==
    /\ Configured /\ finalOptions.force /\ fs0.kind = "dir"
    /\ finalOptions.dryRun
    /\ pc = "exited" /\ Returned

----------------------------------------------------------------------------
(* C8: pruning *)

moduleDir(c) == IF c = "rag" THEN RAG_DIR ELSE COMPONENT_DIRS[c]

moduleFlag(o, c) ==
    CASE c = "api"    -> o.withApi
      [] c = "worker" -> o.withWorker
      [] c = "evals"  -> o.withEvals
      [] c = "config" -> o.withConfig
      [] c = "rag"    -> o.withRag

\* C8: after a successful real run the directory of each optional module
\* (api, worker, evals, config, rag) is absent exactly when its flag is
\* false, and the core modules are present.
C8_PrunedTree ==
    (Returned /\ result.success /\ ~finalOptions.dryRun) =>
        /\ \A c \in COMPONENT_OPTIONS :
              ~directoryExists(fs, moduleDir(c)) <=> ~moduleFlag(finalOptions, c)
        /\ \A m \in CoreModules : directoryExists(fs, m)

C8_Witness ==
    /\ Returned /\ result.success /\ ~finalOptions.dryRun
    /\ ~finalOptions.withApi /\ finalOptions.withWorker
    /\ ~finalOptions.withEvals /\ finalOptions.withConfig
    /\ finalOptions.withRag
    /\ ~directoryExists(fs, <<"apps", "api">>)
    /\ directoryExists(fs, <<"apps", "worker">>)

----------------------------------------------------------------------------
(* C9, C10: presets *)

Resolved == "all" \in DOMAIN options

\* C9: with exactly one preset set, parseOptions returns all five module
\* flags equal to the preset: true for all, false for minimal.
C9_PresetAppliesToAllFive ==
    (Resolved /\ (opts.all \/ opts.minimal)) =>
        /\ options.withApi = opts.all
        /\ options.withWorker = opts.all
        /\ options.withEvals = opts.all
        /\ options.withConfig = opts.all
        /\ "withRag" \in DOMAIN options
        /\ options.withRag = opts.all

\* C10 as stated: with both presets set, option resolution fails before any
\* external process was started or the file system touched, scaffold is not
\* invoked and the process exits non-zero.
C10_ConflictingPresets_AsStated ==
    (opts.all /\ opts.minimal /\ pc \notin {"start", "parse"}) =>
        /\ pc = "exited" /\ exitCode = 1
        /\ options = Unset /\ finalOptions = Unset /\ result = Unset
        /\ fs = fs0 /\ stages = <<>> /\ log = <<>>
        /\ procs = <<>>

\* C10 amended: with both presets set, option resolution fails, scaffold is
\* not invoked, the file system is untouched and the process exits
\* non-zero; the only external process started is the update check that
\* run() launches before it parses the arguments.
C10_ConflictingPresets ==
    (opts.all /\ opts.minimal /\ pc \notin {"start", "parse"}) =>
        /\ pc = "exited" /\ exitCode = 1
        /\ options = Unset /\ finalOptions = Unset /\ result = Unset
        /\ fs = fs0 /\ stages = <<>> /\ log = <<>>
        /\ procs = <<"npm view">> /\ execResults = <<>>

C10_Witness ==
    /\ opts.all /\ opts.minimal
    /\ pc = "exited" /\ exitCode = 1
    /\ procs = <<"npm view">>

----------------------------------------------------------------------------
(* parseOptions and needsInteractiveMode called on their own, as the tests  *)
(* of args.test.ts call them: the flags may then carry withRag             *)

ArgFlags ==
    [all: BOOLEAN, minimal: BOOLEAN,
     withApi: BOOLEAN, withWorker: BOOLEAN, withEvals: BOOLEAN,
     withConfig: BOOLEAN, withRag: BOOLEAN,
     force: {FALSE}, install: {TRUE}, git: {TRUE}, dryRun: {FALSE},
     packageManager: {"bun"}, dir: {""}, author: {""}, license: {""}]

\* the state of everything a call of an exported pure function leaves alone
Idle ==
    /\ projectName = <<>>
    /\ opts = Unset
    /\ options = Unset
    /\ finalOptions = Unset
    /\ fs = NoEntry
    /\ fs0 = NoEntry
    /\ written = <<>>
    /\ procs = <<>>
    /\ execResults = <<>>
    /\ log = <<>>
    /\ stages = <<>>
    /\ errors = <<>>
    /\ result = Unset
    /\ console = <<>>
    /\ updatePromise = "none"
    /\ exitCode = -1

idleVars == <<projectName, opts, options, finalOptions, fs, fs0, written, procs,
              execResults, log, stages, errors, result, console, updatePromise,
              exitCode>>

InitArgs ==
    /\ pc = "call"
    /\ arg \in [name: ArgNames, opts: ArgFlags]
    /\ ret = Unset
    /\ Idle

\* parseOptions(arg.name, arg.opts)
CallParseOptions ==
    /\ pc = "call"
    /\ ret' = IF ConflictingPresets(arg.opts)
              THEN [threw |-> "Cannot use both --all and --minimal flags together"]
              ELSE [value |-> parseOptions(arg.name, arg.opts)]
    /\ pc' = "parseOptions returned"
    /\ UNCHANGED <<arg, idleVars>>

\* the Partial<CasOptions> the tests hand to needsInteractiveMode
partialOf(a) ==
    [projectName |-> a.name, all |-> a.opts.all, minimal |-> a.opts.minimal,
     withApi |-> a.opts.withApi, withWorker |-> a.opts.withWorker,
     withEvals |-> a.opts.withEvals, withConfig |-> a.opts.withConfig,
     withRag |-> a.opts.withRag]

\* needsInteractiveMode(partialOf(arg))
CallNeedsInteractiveMode ==
    /\ pc = "call"
    /\ ret' = [value |-> needsInteractiveMode(partialOf(arg))]
    /\ pc' = "needsInteractiveMode returned"
    /\ UNCHANGED <<arg, idleVars>>

NextArgs == CallParseOptions \/ CallNeedsInteractiveMode

SpecArgs == InitArgs /\ [][NextArgs]_vars

----------------------------------------------------------------------------
(* C11, C12: module flags without a preset *)

\* C11: with no preset set, parseOptions returns each of the five module
\* flags as given in the input; withRag=true in gives withRag=true out.
C11_FlagsStandAsGiven ==
    (pc = "parseOptions returned" /\ ~arg.opts.all /\ ~arg.opts.minimal) =>
        /\ ret.value.withApi = arg.opts.withApi
        /\ ret.value.withWorker = arg.opts.withWorker
        /\ ret.value.withEvals = arg.opts.withEvals
        /\ ret.value.withConfig = arg.opts.withConfig
        /\ "withRag" \in DOMAIN ret.value
        /\ ret.value.withRag = arg.opts.withRag

\* C12: needsInteractiveMode is true when the project name is absent, and
\* otherwise true exactly when no preset and none of the five module flags
\* (withRag included) is set.
C12_NeedsInteractiveMode ==
    (pc = "needsInteractiveMode returned") =>
        ret.value =
            (\/ arg.name = <<>>
             \/ /\ ~arg.opts.all /\ ~arg.opts.minimal
                /\ ~arg.opts.withApi /\ ~arg.opts.withWorker
                /\ ~arg.opts.withEvals /\ ~arg.opts.withConfig
                /\ ~arg.opts.withRag)

----------------------------------------------------------------------------
(* C13: the project name handed to scaffold *)

\* C13: every configuration run() hands to scaffold has a project name that
\* validateProjectName accepts.
C13_ScaffoldGetsValidName ==
    Configured => validateProjectName(finalOptions.projectName).valid

----------------------------------------------------------------------------
(* C18: --with-api together with --minimal *)

\* C18: with --with-api and --minimal the configuration handed to scaffold
\* keeps the API and drops worker, evals and config.
C18_ApiOnly ==
    (Configured /\ opts.withApi /\ opts.minimal) =>
        /\ finalOptions.withApi
        /\ ~finalOptions.withWorker
        /\ ~finalOptions.withEvals
        /\ ~finalOptions.withConfig

----------------------------------------------------------------------------
(* validateProjectName and slugify called on their own *)

\* symbols of the texts tried: a letter, an upper case letter, a digit, the
\* hyphen, the underscore, a character outside the grammar, a long run
TextSyms == {"a", "A", "1", "-", "_", " ", LONG_RUN}

MaxTextLen == 3

Texts == UNION { [1..n -> TextSyms] : n \in 0..MaxTextLen }

InitText ==
    /\ pc = "call"
    /\ arg \in Texts
    /\ ret = Unset
    /\ Idle

CallValidateProjectName ==
    /\ pc = "call"
    /\ ret' = [value |-> validateProjectName(arg)]
    /\ pc' = "validateProjectName returned"
    /\ UNCHANGED <<arg, idleVars>>

CallSlugify ==
    /\ pc = "call"
    /\ ret' = [value |-> slugify(arg)]
    /\ pc' = "slugify returned"
    /\ UNCHANGED <<arg, idleVars>>

\* slugify applied to what slugify returned
CallSlugifyAgain ==
    /\ pc = "slugify returned"
    /\ ret' = [value |-> slugify(ret.value), first |-> ret.value]
    /\ pc' = "slugify returned twice"
    /\ UNCHANGED <<arg, idleVars>>

NextText == CallValidateProjectName \/ CallSlugify \/ CallSlugifyAgain

SpecText == InitText /\ [][NextText]_vars

----------------------------------------------------------------------------
(* C14: validateProjectName *)

\* ^[a-z][a-z0-9-_]*$
MatchesNamePattern(text) ==
    /\ text # <<>>
    /\ text[1] \in {"a", LONG_RUN}
    /\ \A i \in 2..Len(text) : text[i] \in {"a", "1", "-", "_", LONG_RUN}

\* C14: validateProjectName returns valid=true exactly for a non-empty name
\* of at most 214 characters that matches ^[a-z][a-z0-9-_]*$, and otherwise
\* the message of the first violated rule: required, too long, pattern.
C14_ValidateProjectName ==
    (pc = "validateProjectName returned") =>
        LET ok == arg # <<>> /\ NameLength(arg) <= 214 /\ MatchesNamePattern(arg)
        IN  /\ ret.value.valid <=> ok
            /\ ~ok => ret.value.message =
                        (IF arg = <<>> THEN "Project name is required"
                         ELSE IF NameLength(arg) > 214
                              THEN "Project name must be 214 characters or less"
                         ELSE "Project name must start with a lowercase letter and contain only lowercase letters, numbers, hyphens, and underscores")

C14_Witness ==
    /\ pc = "validateProjectName returned"
    /\ NameLength(arg) = 214
    /\ ret.value.valid

C14_WitnessTooLong ==
    /\ pc = "validateProjectName returned"
    /\ NameLength(arg) = 215 /\ arg[3] = "A"
    /\ ret.value = [valid |-> FALSE, message |-> "Project name must be 214 characters or less"]

----------------------------------------------------------------------------
(* C15, C16: slugify *)

\* C15: slugify returns the empty string or a name validateProjectName
\* accepts.
C15_SlugIsValidOrEmpty ==
    (pc = "slugify returned") =>
        \/ ret.value = <<>>
        \/ validateProjectName(ret.value).valid

\* C16: slugify(slugify(x)) = slugify(x) for every input x.
C16_SlugifyIdempotent ==
    (pc = "slugify returned twice") => ret.value = ret.first

C16_Witness ==
    /\ pc = "slugify returned twice"
    /\ arg = <<" ", "A", "-">>
    /\ ret.first = <<"a">>
    /\ ret.value = <<"a">>

----------------------------------------------------------------------------
(* C17: the dry-run trace and the stages of a real run *)

\* the stages a configuration asks for, given the entry at the target path
plannedStages(o, f0) ==
    (IF f0.kind = "dir" /\ o.force THEN <<"remove existing directory">> ELSE <<>>)
    \o <<"clone", "remove .git">>
    \o (IF o.withApi THEN <<>> ELSE <<"remove component: api">>)
    \o (IF o.withWorker THEN <<>> ELSE <<"remove component: worker">>)
    \o (IF o.withEvals THEN <<>> ELSE <<"remove component: evals">>)
    \o (IF o.withConfig THEN <<>> ELSE <<"remove component: config">>)
    \o <<"replace template variables">>
    \o (IF o.withRag THEN <<"scaffold RAG module">> ELSE <<>>)
    \o (IF o.noGit THEN <<>> ELSE <<"git init">>)
    \o (IF o.noInstall THEN <<>> ELSE <<"install">>)

\* the stage a dry-run line describes; the further lines of a description
\* that takes several lines describe no stage of their own
describedStage(line) ==
    CASE line = "Would remove existing directory" -> <<"remove existing directory">>
      [] line = "Would clone template" -> <<"clone">>
      [] line = "Would remove .git directory" -> <<"remove .git">>
      [] line = "Would remove component: api" -> <<"remove component: api">>
      [] line = "Would remove component: worker" -> <<"remove component: worker">>
      [] line = "Would remove component: evals" -> <<"remove component: evals">>
      [] line = "Would remove component: config" -> <<"remove component: config">>
      [] line = "Would replace template variables:" -> <<"replace template variables">>
      [] line = "Would scaffold RAG module in packages/rag" -> <<"scaffold RAG module">>
      [] line = "Would initialize git repository" -> <<"git init">>
      [] line \in { "Would run: " \o pm \o " install" : pm \in VALID_PACKAGE_MANAGERS } -> <<"install">>
      [] OTHER -> <<>>

RECURSIVE describedStages(_)
describedStages(lines) ==
    IF lines = <<>> THEN <<>>
    ELSE describedStage(Head(lines)) \o describedStages(Tail(lines))

C17_WitnessRealRun ==
    /\ Returned /\ ~FatalReturn
    /\ ~finalOptions.dryRun /\ finalOptions.force /\ fs0.kind = "dir"
    /\ finalOptions.withRag /\ ~finalOptions.withApi /\ finalOptions.withWorker
    /\ ~finalOptions.noGit /\ ~finalOptions.noInstall
    /\ Len(stages) >= 8

----------------------------------------------------------------------------
(* C19, C20: the update check *)

\* a step of the primary workflow after the update check was started
WorkflowStep ==
    \/ Parse
    \/ NonInteractive
    \/ Interactive
    \/ CancelPrompt
    \/ ScCheckOnline
    \/ ScCheckTarget
    \/ ScClone
    \/ ScRemoveGit
    \/ ScPrune
    \/ ScSubstitute
    \/ ScRag
    \/ ScGitInit
    \/ ScInstall
    \/ Report

\* the stages of scaffold that rewrite the project tree
TreeStages == {"sc_prune", "sc_vars", "sc_rag"}

\* C19: the update check is the first thing run() starts; while it is
\* pending, the next step of the primary workflow (option resolution,
\* prompts, the stages of scaffold, the report) can be taken; it is awaited
\* only after scaffold has returned and success has been reported.
\* Enabledness of the three stages that rewrite the tree is evaluated on
\* dry runs; C19_Witness covers them on a real run.
C19_UpdateCheckDoesNotBlock ==
    /\ (updatePromise = "none") <=> (pc = "start")
    /\ (pc # "start") => procs[1] = "npm view"
    /\ ( /\ updatePromise = "pending"
         /\ pc \notin {"start", "await_update", "exited"}
         /\ (pc \in TreeStages => finalOptions.dryRun) )
          => ENABLED WorkflowStep
    /\ (pc = "await_update") =>
          /\ Returned
          /\ console[Len(console)] = "Project created successfully!"

\* a real run went through every stage, the tree stages included, and
\* reported success while the update check was still pending
C19_Witness ==
    /\ pc = "await_update"
    /\ updatePromise = "pending"
    /\ Returned /\ result.success
    /\ ~finalOptions.dryRun /\ finalOptions.withRag /\ ~finalOptions.withApi
    /\ stages = plannedStages(finalOptions, fs0)
    /\ Len(stages) >= 7

\* C20: when the primary workflow has finished and the update check has
\* not produced its result, the process can finish at once, without the
\* result.
C20_LateResultIsDropped ==
    (pc = "await_update" /\ updatePromise = "pending") => ENABLED AwaitUpdate

----------------------------------------------------------------------------
(* C21: the order of the stages *)

\* the position of a stage in the order the claim gives
stageRank(stage) ==
    CASE stage = "remove existing directory" -> 2
      [] stage = "clone" -> 3
      [] stage = "remove .git" -> 4
      [] stage = "remove component: api" -> 5
      [] stage = "remove component: worker" -> 6
      [] stage = "remove component: evals" -> 7
      [] stage = "remove component: config" -> 8
      [] stage = "replace template variables" -> 9
      [] stage = "scaffold RAG module" -> 10
      [] stage = "git init" -> 11
      [] stage = "install" -> 12

procRank(cmd) ==
    CASE cmd = "git ls-remote" -> 1
      [] cmd = "git clone" -> 3
      [] cmd = "git init" -> 11
      [] OTHER -> 12

\* the stage scaffold is about to run
pcRank ==
    CASE pc \in {"start", "parse", "mode"} -> 0
      [] pc = "sc_online" -> 1
      [] pc = "sc_target" -> 2
      [] pc = "sc_clone" -> 3
      [] pc = "sc_rmgit" -> 4
      [] pc = "sc_prune" -> 5
      [] pc = "sc_vars" -> 9
      [] pc = "sc_rag" -> 10
      [] pc = "sc_git" -> 11
      [] pc = "sc_install" -> 12
      [] OTHER -> 13

StrictlyIncreasing(ranks) ==
    \A i \in 1..Len(ranks) : \A j \in 1..Len(ranks) : i < j => ranks[i] < ranks[j]

ranksOf(seq, rank(_)) == [i \in 1..Len(seq) |-> rank(seq[i])]

\* the processes scaffold has started (run() starts the update check, the
\* prompts start git config)
isScaffoldProc(cmd) == cmd \notin {"npm view", "git config"}

scaffoldProcs == SelectSeq(procs, isScaffoldProc)

\* C21: the stages performed (described, in a dry run) so far and the
\* processes started so far are in the order connectivity check, target
\* check, clone, .git removal, pruning, substitution, RAG injection, git
\* init, install, none of them twice, all of them before the stage scaffold
\* is at; and every process scaffold has started has ended before the next
\* stage begins.
C21_StagesInOrder ==
    /\ StrictlyIncreasing(ranksOf(stages, stageRank))
    /\ StrictlyIncreasing(ranksOf(describedStages(log), stageRank))
    /\ StrictlyIncreasing(ranksOf(scaffoldProcs, procRank))
    /\ \A i \in 1..Len(stages) : stageRank(stages[i]) < pcRank
    /\ \A i \in 1..Len(describedStages(log)) : stageRank(describedStages(log)[i]) < pcRank
    /\ \A i \in 1..Len(scaffoldProcs) : procRank(scaffoldProcs[i]) < pcRank
    /\ Len(execResults) = Len(scaffoldProcs)
    /\ \A i \in 1..Len(execResults) : execResults[i].cmd = scaffoldProcs[i]

C21_Witness ==
    /\ Returned /\ ~FatalReturn /\ ~finalOptions.dryRun
    /\ stages = plannedStages(finalOptions, fs0)
    /\ Len(stages) >= 8
    /\ Len(scaffoldProcs) = 4
    /\ Failed("git init")

----------------------------------------------------------------------------
(* C22: fatal errors and warnings *)

InstallCommands == { pm \o " install" : pm \in VALID_PACKAGE_MANAGERS }

InstallStarted == \E cmd \in InstallCommands : Started(cmd)

InstallFailed == \E cmd \in InstallCommands : Failed(cmd)

GitInitWarning == Err("Warning: Failed to initialize git: ", "git init stderr")

InstallWarning == Err("Warning: Failed to install dependencies: ", "install stderr")

InstallHint(pm) == Err("You can manually run the install command in the project directory.", pm)

\* the warnings of the failed post-clone stages, in stage order
expectedWarnings ==
    (IF Failed("git init") THEN <<GitInitWarning>> ELSE <<>>)
    \o (IF InstallFailed
        THEN <<InstallWarning, InstallHint(finalOptions.packageManager)>>
        ELSE <<>>)

\* C22: a failed probe, an existing target without force and a failed
\* clone end the run at that stage with that one error; a failed git init
\* does not stop the run (install is still started unless noInstall), and
\* the result carries the git-init warning, the install warning and its
\* hint together, in stage order.
C22_FatalStopsWarningsAccumulate ==
    Returned =>
        /\ ProbeFailed =>
              /\ result.errors = <<NetworkError>>
              /\ scaffoldProcs = <<"git ls-remote">>
              /\ stages = <<>>
        /\ (fs0.kind = "dir" /\ ~finalOptions.force /\ ~ProbeFailed) =>
              /\ result.errors = <<TargetExistsError>>
              /\ NoStageProcess
              /\ stages = <<>>
        /\ Failed("git clone") =>
              /\ Len(result.errors) = 1
              /\ result.errors[1].msg = CloneFailedMsg
              /\ scaffoldProcs[Len(scaffoldProcs)] = "git clone"
              /\ stages[Len(stages)] = "clone"
        /\ FatalReturn =>
              \/ ProbeFailed
              \/ fs0.kind = "dir" /\ ~finalOptions.force
              \/ Failed("git clone")
        /\ (Failed("git init") /\ ~finalOptions.noInstall) => InstallStarted
        /\ (~FatalReturn /\ expectedWarnings # <<>>) =>
              /\ "errors" \in DOMAIN result
              /\ result.errors = expectedWarnings

C22_Witness ==
    /\ Returned
    /\ Failed("git init")
    /\ InstallFailed
    /\ result.errors = <<GitInitWarning, InstallWarning, InstallHint("bun")>>

C22_WitnessFatal ==
    /\ Returned
    /\ Failed("git clone")
    /\ stages = <<"remove existing directory", "clone">>

----------------------------------------------------------------------------
(* replaceTemplateVars as a function of its arguments *)

ContentSyms == {PH_projectName, PH_author, PH_license, PH_year, ORIGIN_NAME, "x"}

MaxContentLen == 2

Contents == UNION { [1..n -> ContentSyms] : n \in 0..MaxContentLen }

\* values of the TemplateVars fields: a project name may contain the origin
\* name, an author is free text
VarChoices ==
    [projectName : {<<"b">>, <<ORIGIN_NAME, "-", "b">>},
     author      : {<<"Jane">>, <<PH_license>>},
     license     : {<<"MIT">>},
     year        : {Year}]

InitSubst ==
    /\ pc = "call"
    /\ arg \in [content : Contents, vars : VarChoices]
    /\ ret = Unset
    /\ Idle

CallReplaceTemplateVars ==
    /\ pc = "call"
    /\ ret' = [value |-> replaceTemplateVars(arg.content, arg.vars)]
    /\ pc' = "replaceTemplateVars returned"
    /\ UNCHANGED <<arg, idleVars>>

NextSubst == CallReplaceTemplateVars

SpecSubst == InitSubst /\ [][NextSubst]_vars

----------------------------------------------------------------------------
(* C23: replaceTemplateVars *)

\* what one symbol of the original content stands for
valueOf(sym, tv) ==
    CASE sym = PH_projectName -> tv.projectName
      [] sym = PH_author -> tv.author
      [] sym = PH_license -> tv.license
      [] sym = PH_year -> tv.year
      [] sym = ORIGIN_NAME -> tv.projectName
      [] OTHER -> <<sym>>

\* every token of the original content replaced by its value, verbatim
RECURSIVE substituteVerbatim(_, _)
substituteVerbatim(content, tv) ==
    IF content = <<>> THEN <<>>
    ELSE valueOf(Head(content), tv) \o substituteVerbatim(Tail(content), tv)

\* C23: replaceTemplateVars returns the original content with every
\* occurrence of the four placeholders and of the origin name replaced by
\* the value of the variable, the inserted values left as they are, and
\* all other text unchanged.
C23_ReplacesVerbatim ==
    (pc = "replaceTemplateVars returned") =>
        ret.value = substituteVerbatim(arg.content, arg.vars)

----------------------------------------------------------------------------
(* C24: what the substitution stage writes *)

Range(seq) == { seq[i] : i \in 1..Len(seq) }

NoDuplicates(seq) ==
    \A i \in 1..Len(seq) : \A j \in 1..Len(seq) : seq[i] = seq[j] => i = j

ContainsOrigin(text) == \E i \in 1..Len(text) : text[i] = ORIGIN_NAME

\* no directory and no file of an unselected component
PrunedAbsent(f) ==
    \A c \in Range(componentsToRemove(finalOptions)) :
        /\ \A d \in f.dirs : ~Under(d, COMPONENT_DIRS[c])
        /\ \A q \in DOMAIN f.files : ~Under(q, COMPONENT_DIRS[c])

\* C24: in the substitution stage of a real run a file is written exactly
\* when its content changes; no path is created (in particular none of a
\* pruned component) and none is removed; a file that is visited a second
\* time with nothing left to replace is not written again.
C24_WritesOnlyChanges ==
    [][ (pc = "sc_vars" /\ pc' = "sc_rag" /\ ~finalOptions.dryRun) =>
          /\ DOMAIN fs'.files = DOMAIN fs.files
          /\ fs'.dirs = fs.dirs
          /\ \A q \in DOMAIN fs.files :
                (fs'.files[q] # fs.files[q]) <=> (q \in Range(written'))
          /\ PrunedAbsent(fs')
          /\ ~ContainsOrigin(finalOptions.projectName) => NoDuplicates(written')
      ]_vars

C24_Witness ==
    /\ pc = "sc_rag" /\ ~finalOptions.dryRun
    /\ ~finalOptions.withApi /\ finalOptions.withWorker
    /\ <<"apps", "api", "package.json">> \notin DOMAIN fs.files
    /\ <<"apps", "worker", "package.json">> \in Range(written)
    /\ NoDuplicates(written)
    /\ Len(written) >= 5

----------------------------------------------------------------------------
(* C25: RAG injection *)

AppendedFiles == { <<".env.example">>, <<"README.md">> }

\* C25: the RAG stage changes the tree only when withRag is set and the run
\* is not a dry run; then .env.example and README.md are what they were
\* (empty when absent) followed by the snippet, and every other file and
\* every directory that existed is still there, unchanged.
C25_RagIsAdditive ==
    [][ (pc = "sc_rag" /\ pc' = "sc_git") =>
          IF finalOptions.withRag /\ ~finalOptions.dryRun
          THEN /\ fs'.files[<<".env.example">>]
                    = readOrEmpty(fs, <<".env.example">>) \o ragEnvVars
               /\ fs'.files[<<"README.md">>]
                    = readOrEmpty(fs, <<"README.md">>) \o ragReadme(templateVars(finalOptions))
               /\ \A q \in DOMAIN fs.files \ AppendedFiles :
                     q \in DOMAIN fs'.files /\ fs'.files[q] = fs.files[q]
               /\ fs.dirs \subseteq fs'.dirs
               /\ stages' = Append(stages, "scaffold RAG module")
          ELSE fs' = fs /\ stages' = stages
      ]_vars

C25_Witness ==
    /\ pc = "sc_git"
    /\ finalOptions.withRag /\ ~finalOptions.dryRun
    /\ fs.files[<<".env.example">>] = ragEnvVars
    /\ Len(fs.files[<<"README.md">>]) > Len(ragReadme(templateVars(finalOptions)))
    /\ RAG_DIR \o <<"package.json">> \in DOMAIN fs.files
    /\ <<"package.json">> \in DOMAIN fs.files

----------------------------------------------------------------------------
(* exec as a function of what execa does *)

Commands == {"git", "npm", "pnpm", "yarn", "bun"}

\* what execa(cmd, args, { ...opts, reject: false }) can end with: the
\* process exited with a code; it was killed on the timeout and has no exit
\* code; it could not be started, which execa reports either by throwing or,
\* reject being false, by resolving with the error object (no exit code,
\* nothing captured from the process)
ExecaOutcomes ==
    { [event |-> "exit", thrown |-> FALSE, exitCode |-> c, stdout |-> "", stderr |-> e]
        : c \in {0, 1, 128}, e \in {"", "fatal: repository not found"} }
    \cup
    { [event |-> "timeout", thrown |-> FALSE, stdout |-> "", stderr |-> e,
       message |-> "Command timed out"] : e \in {"", "partial output"} }
    \cup
    { [event |-> "spawn error", thrown |-> t, stdout |-> "", stderr |-> "", message |-> m]
        : t \in BOOLEAN, m \in {"spawn ENOENT", ""} }

exec(out) ==
    IF out.thrown
    THEN [stdout   |-> "",
          stderr   |-> IF out.message # "" THEN out.message ELSE "Unknown error",
          exitCode |-> 1]
    ELSE [stdout   |-> out.stdout,
          stderr   |-> out.stderr,
          exitCode |-> IF "exitCode" \in DOMAIN out THEN out.exitCode ELSE 1]

InitExec ==
    /\ pc = "call"
    /\ arg \in { [cmd |-> c, out |-> o] : c \in Commands, o \in ExecaOutcomes }
    /\ ret = Unset
    /\ Idle

CallExec ==
    /\ pc = "call"
    /\ ret' = [value |-> exec(arg.out)]
    /\ pc' = "exec returned"
    /\ UNCHANGED <<arg, idleVars>>

NextExec == CallExec

SpecExec == InitExec /\ [][NextExec]_vars

----------------------------------------------------------------------------
(* C26: exec *)

FailureMessage(out) == IF out.message # "" THEN out.message ELSE "Unknown error"

\* C26: exec always returns a result; an exit with a code is returned with
\* that code; a process that could not be started is returned with exit
\* code 1 and the failure message in stderr; a process that ended without
\* an exit code is returned with exit code 1.
C26_ExecNeverThrows ==
    (pc = "exec returned") =>
        /\ DOMAIN ret.value = {"stdout", "stderr", "exitCode"}
        /\ arg.out.event = "exit" => ret.value.exitCode = arg.out.exitCode
        /\ arg.out.event = "timeout" => ret.value.exitCode = 1
        /\ arg.out.event = "spawn error" =>
              /\ ret.value.exitCode = 1
              /\ ret.value.stderr = FailureMessage(arg.out)

----------------------------------------------------------------------------
(* C27: the entry at the target path without force *)

\* C27: without force, an entry that was at the target path when the
\* program was started, directory or regular file, is still there.
C27_NoDeletionWithoutForce ==
    (Configured /\ ~finalOptions.force /\ fs0.kind # "none") => fs.kind = fs0.kind

----------------------------------------------------------------------------
(* C28: one application of replaceTemplateVars per file *)

\* the files the substitution stage visits: TEMPLATE_FILES and the
\* package.json of every directory one level inside apps/ and packages/
InScope(f) ==
    { q \in DOMAIN f.files :
        \/ q \in Range(TEMPLATE_FILES)
        \/ \E d \in subdirectories(f, <<"apps">>) \cup subdirectories(f, <<"packages">>) :
              q = d \o <<"package.json">> }

\* C28: the substitution stage of a real run leaves in every in-scope file
\* exactly replaceTemplateVars of what the file held before the stage.
C28_OneApplication ==
    [][ (pc = "sc_vars" /\ pc' = "sc_rag" /\ ~finalOptions.dryRun) =>
          \A q \in InScope(fs) :
              fs'.files[q] = replaceTemplateVars(fs.files[q], templateVars(finalOptions))
      ]_vars

----------------------------------------------------------------------------
(* C29: the two ways of building the configuration *)

\* the components the prompts take for a preset without asking
presetComponents(partial) == IF partial.all THEN COMPONENT_OPTIONS ELSE {}

\* C29: with one of the presets given, the module flags of the
\* configuration handed to scaffold are the ones the non-interactive
\* defaults give and the ones the prompts give, whichever of the two built it.
C29_PathsAgree ==
    (Configured /\ (opts.all \/ opts.minimal)) =>
        \A c \in COMPONENT_OPTIONS :
            /\ moduleFlag(finalOptions, c) = moduleFlag(nonInteractiveDefaults(options), c)
            /\ moduleFlag(finalOptions, c) = (c \in presetComponents(options))

----------------------------------------------------------------------------
(* C30: the shape of ScaffoldResult *)

HasErrors == "errors" \in DOMAIN result /\ Len(result.errors) > 0

\* C30: in every result scaffold returns, success is false exactly when
\* errors is a non-empty list and true exactly when errors is absent, so
\* run() always has a list to print when it reports a failure.
C30_ResultShape ==
    Returned =>
        /\ ~result.success <=> HasErrors
        /\ result.success <=> "errors" \notin DOMAIN result
        /\ (pc = "exited" /\ exitCode = 1) => HasErrors

C30_Witness ==
    /\ Returned /\ pc = "exited" /\ exitCode = 1
    /\ ~result.success
    /\ Len(result.errors) = 3

C30_WitnessSuccess ==
    /\ Returned /\ result.success
    /\ ~finalOptions.dryRun
    /\ "errors" \notin DOMAIN result
    /\ Started("git init")

====
